---- MODULE Spec2Model ----
(***************************************************************************)
(* Model of file-rename.py (class GitFileRename): the pattern matcher,     *)
(* the name transformer, the content substitutor, the copy engine and the  *)
(* fix engine, and the per-repository loops that drive them.               *)
(*                                                                         *)
(* A Python str is a sequence of one-character strings.  A path is the     *)
(* sequence of its parts below the repository directory; the repository    *)
(* directory itself is the empty path.  The filesystem is a function from  *)
(* the paths that exist to their nodes.                                    *)
(***************************************************************************)
EXTENDS Integers, Sequences, FiniteSets, TLC

(***************************************************************************)
(* Strings                                                                 *)
(***************************************************************************)
UpperLetters == <<"A","B","C","D","E","F","G","H","I","J","K","L","M",
                  "N","O","P","Q","R","S","T","U","V","W","X","Y","Z">>
LowerLetters == <<"a","b","c","d","e","f","g","h","i","j","k","l","m",
                  "n","o","p","q","r","s","t","u","v","w","x","y","z">>

IsAsciiLetter(c) == \E i \in 1..26 : UpperLetters[i] = c \/ LowerLetters[i] = c

IsDigit(c) == c \in {"0","1","2","3","4","5","6","7","8","9"}

\* str.lower() on one character
LowerChar(c) ==
    IF \E i \in 1..26 : UpperLetters[i] = c
    THEN LowerLetters[CHOOSE i \in 1..26 : UpperLetters[i] = c]
    ELSE c

\* str.lower()
Lower(s) == [i \in 1..Len(s) |-> LowerChar(s[i])]

\* s.startswith(p)
StartsWith(s, p) == Len(p) <= Len(s) /\ SubSeq(s, 1, Len(p)) = p

\* s[n:]
Drop(s, n) == SubSeq(s, n + 1, Len(s))

\* the Python test  pat in s
Contains(s, pat) ==
    \E i \in 0..(Len(s) - Len(pat)) : SubSeq(s, i + 1, i + Len(pat)) = pat

\* the test  re.compile(re.escape(old), re.IGNORECASE).search(s)  succeeds:
\* the escaped pattern is the literal old, compared letter by letter
\* without regard to case
SearchI(s, old) ==
    \E i \in 0..(Len(s) - Len(old)) :
        Lower(SubSeq(s, i + 1, i + Len(old))) = Lower(old)

\* new.join(list(s)) with new at both ends: what replacing the empty
\* string yields
RECURSIVE Interleave(_, _)
Interleave(s, new) ==
    IF s = <<>> THEN new
    ELSE new \o <<Head(s)>> \o Interleave(Tail(s), new)

\* str.replace(old, new): leftmost, non-overlapping, all occurrences
RECURSIVE ScanReplace(_, _, _)
ScanReplace(s, old, new) ==
    IF Len(s) < Len(old) THEN s
    ELSE IF StartsWith(s, old)
         THEN new \o ScanReplace(Drop(s, Len(old)), old, new)
         ELSE <<Head(s)>> \o ScanReplace(Tail(s), old, new)

StrReplace(s, old, new) ==
    IF old = <<>> THEN Interleave(s, new) ELSE ScanReplace(s, old, new)

(***************************************************************************)
(* re.sub with a string replacement: the replacement is a template.  A     *)
(* backslash starts an escape: \\ is one backslash, \a \b \f \n \r \t \v   *)
(* are control characters, every other ASCII letter and a backslash at the *)
(* end raise re.error, a digit 1..9 is a group reference (the pattern has  *)
(* no group: re.error), \g needs a following "<" and \0 starts an octal    *)
(* escape; a backslash before any other character stays as it is.          *)
(***************************************************************************)
Backslash == "\\"

\* the character an escape of sre_parse.ESCAPES stands for
EscapeChar(c) ==
    CASE c = "a" -> "<BEL>"
      [] c = "b" -> "<BS>"
      [] c = "f" -> "\f"
      [] c = "n" -> "\n"
      [] c = "r" -> "\r"
      [] c = "t" -> "\t"
      [] c = "v" -> "<VT>"
      [] OTHER   -> Backslash

IsEscape(c) == c \in {"a","b","f","n","r","t","v", Backslash}

\* sre_parse.parse_template: [raised |-> whether re.error is raised,
\* value |-> the literal text the template stands for]
RECURSIVE parse_template(_)
parse_template(t) ==
    IF t = <<>> THEN [raised |-> FALSE, value |-> <<>>]
    ELSE IF Head(t) # Backslash
    THEN LET rest == parse_template(Tail(t))
         IN  [raised |-> rest.raised, value |-> <<Head(t)>> \o rest.value]
    ELSE IF Len(t) = 1
    THEN [raised |-> TRUE, value |-> <<>>]
    ELSE LET c    == t[2]
             rest == parse_template(Drop(t, 2))
         IN  IF IsEscape(c)
             THEN [raised |-> rest.raised, value |-> <<EscapeChar(c)>> \o rest.value]
             ELSE IF IsAsciiLetter(c) \/ IsDigit(c)
             THEN [raised |-> TRUE, value |-> <<>>]
             ELSE [raised |-> rest.raised, value |-> <<Backslash, c>> \o rest.value]

\* the scan of pattern.sub: leftmost, non-overlapping matches of the literal
\* old without regard to case, each replaced by the expanded template
RECURSIVE ScanReplaceI(_, _, _)
ScanReplaceI(s, old, lit) ==
    IF Len(s) < Len(old) THEN s
    ELSE IF Lower(SubSeq(s, 1, Len(old))) = Lower(old)
         THEN lit \o ScanReplaceI(Drop(s, Len(old)), old, lit)
         ELSE <<Head(s)>> \o ScanReplaceI(Tail(s), old, lit)

\* re.compile(re.escape(old), re.IGNORECASE).sub(new, s)
re_sub(s, old, new) ==
    LET tpl == parse_template(new)
    IN  IF tpl.raised THEN [raised |-> TRUE, value |-> s]
        ELSE [raised |-> FALSE,
              value  |-> IF old = <<>> THEN Interleave(s, tpl.value)
                         ELSE ScanReplaceI(s, old, tpl.value)]

(***************************************************************************)
(* Paths and the filesystem                                                *)
(***************************************************************************)
Str_git  == <<".","g","i","t">>
Str_text == <<"t","e","x","t">>

\* a byte above 0x7f that is no valid UTF-8 where it stands (file(1) still
\* reports text), and the NUL byte (file(1) reports "data")
HighByte == "<E9>"
NulByte == "<00>"

\* self.work_dir / repo_name, as the parts of the path
repo_dir == << <<"w">>, <<"r">> >>

\* the repository directory, relative to itself
Root == <<>>

FileNode(content) == [kind |-> "file", content |-> content]
DirNode == [kind |-> "dir", content |-> <<>>]

\* Path.name, Path.parent
PathName(p) == p[Len(p)]
PathParent(p) == SubSeq(p, 1, Len(p) - 1)

\* Path.exists(), Path.is_dir(), Path.is_file()
Exists(tree, p) == p = Root \/ p \in DOMAIN tree
IsDir(tree, p) == p = Root \/ (p \in DOMAIN tree /\ tree[p].kind = "dir")
IsFile(tree, p) == p \in DOMAIN tree /\ tree[p].kind = "file"

\* p lies below d
Under(p, d) == Len(p) > Len(d) /\ SubSeq(p, 1, Len(d)) = d

\* the test  '.git' in item.parts
HasGitPart(p) == \E i \in 1..Len(p) : p[i] = Str_git

\* every enumeration of the set S
RECURSIVE Orderings(_)
Orderings(S) ==
    IF S = {} THEN {<<>>}
    ELSE UNION {{<<x>> \o rest : rest \in Orderings(S \ {x})} : x \in S}

\* the orders in which a walk can yield the entries S: a directory is
\* listed before anything below it; the order is otherwise that of
\* os.scandir, which the program does not control
walk_orders(S) ==
    {w \in Orderings(S) : \A i, j \in 1..Len(w) : i < j => ~Under(w[i], w[j])}

\* the entries below d
Below(tree, d) == {p \in DOMAIN tree : Under(p, d)}

\* Path.rglob('*') on d: every entry below d, once
rglob(tree, d) == walk_orders(Below(tree, d))

\* str(path): the parts joined by "/"
RECURSIVE JoinParts(_)
JoinParts(parts) ==
    IF parts = <<>> THEN <<>>
    ELSE IF Len(parts) = 1 THEN Head(parts)
    ELSE Head(parts) \o <<"/">> \o JoinParts(Tail(parts))

PathStr(p) == JoinParts(repo_dir \o p)

\* what file(1) says of a content
file_description(content) ==
    IF content = <<>> THEN <<"e","m","p","t","y">>
    ELSE IF \E i \in 1..Len(content) : content[i] = NulByte THEN <<"d","a","t","a">>
    ELSE IF \E i \in 1..Len(content) : content[i] = HighByte
    THEN <<"I","S","O","-","8","8","5","9"," ","t","e","x","t">>
    ELSE <<"A","S","C","I","I"," ","t","e","x","t">>

\* the standard output of  file <path>
file_stdout(tree, p) ==
    PathStr(p) \o <<":"," ">> \o file_description(tree[p].content) \o <<"\n">>

\* f.read() with encoding='utf-8', errors='ignore': invalid bytes are dropped
read_text(content) == SelectSeq(content, LAMBDA c : c # HighByte)

\* shutil.copy2(src, dst)
copy2(tree, src, dst) == (dst :> tree[src]) @@ tree

\* shutil.copytree(src, dst): src and everything below it, under dst
copytree(tree, src, dst) ==
    LET copied == {p \in DOMAIN tree : p = src \/ Under(p, src)}
        image  == {dst \o Drop(p, Len(src)) : p \in copied}
    IN  [q \in image |-> tree[src \o Drop(q, Len(dst))]] @@ tree

(***************************************************************************)
(* Configuration and state                                                 *)
(***************************************************************************)
VARIABLES
    fs,              \* the working tree of the repository below repo_dir
    case_sensitive,  \* self.case_sensitive
    fix_mode,        \* self.fix_mode
    replacements,    \* self.replacements: sequence of <<old, new>>
    dry_run,         \* the dry_run argument of the current invocation
    pc,              \* "pair": at the head of the loop over replacements;
                     \* "items": in the loop over matching_items;
                     \* "done": the function returned; "crashed": an
                     \* exception left process_repository
    pair_idx,        \* index of the current pair of replacements
    matching_items,  \* the list find_items_with_pattern returned
    item_idx,        \* index of the next item of matching_items
    items_count,     \* items_copied, or items_fixed in fix mode
    run_no,          \* which invocation of the tool on this clone this is
    start_fs,        \* the tree as the current invocation found it
    finished,        \* one record per invocation that returned
    searched,        \* the indices of the pairs searched for so far in this
                     \* invocation, in the order of the searches
    last,            \* the last call made by the loop body, with the tree
                     \* before it
    repo_list_file,  \* the lines of the repository list, or NoFile
    push,            \* the push argument of run
    base_branch,     \* self.base_branch ("" when not configured)
    branch_name,     \* self.branch_name ("" when not configured)
    auto_create_branch, \* self.auto_create_branch
    work_dir,        \* the names of the clones below self.work_dir, or NoDir
    log_file,        \* the messages log_to_file appended, in order
    line_idx,        \* index of the line of the list the loop of run is at
    total_repos,     \* run's counters
    successful_repos,
    total_items,
    retry,           \* the loop variable of the retry loops
    current_branch,  \* the branch checked out in the current clone
    local_branches,  \* the local branches of the current clone
    exit_code,       \* what run returned, or NoExit
    setup_failed,    \* checkout_base_branch or create_or_checkout_branch
                     \* returned False for the current repository
    processed        \* the lines process_repository was called with, in order

\* the state of run and of the version-control calls around the loops
orchestration == <<repo_list_file, push, base_branch, branch_name,
                   auto_create_branch, work_dir, log_file, line_idx, total_repos,
                   successful_repos, total_items, retry, current_branch,
                   local_branches, exit_code, setup_failed, processed>>

vars == <<fs, case_sensitive, fix_mode, replacements, dry_run, pc, pair_idx,
          matching_items, item_idx, items_count, run_no, start_fs, finished,
          searched, last, orchestration>>

config == <<case_sensitive, fix_mode, replacements>>

(***************************************************************************)
(* Pattern Matcher                                                         *)
(***************************************************************************)
\* the test without the skip of lines 280-281
matches_inside_git(item, pattern) ==
    IF case_sensitive
    THEN Contains(PathName(item), pattern)
    ELSE Contains(Lower(PathName(item)), Lower(pattern))

\* the test of lines 280-291 on one item
matches(item, pattern) ==
    /\ ~HasGitPart(repo_dir \o item)
    /\ IF case_sensitive
       THEN Contains(PathName(item), pattern)
       ELSE Contains(Lower(PathName(item)), Lower(pattern))

\* the lists find_items_with_pattern(repo_dir, pattern) can return: the
\* items of a walk of the tree that pass the test, in the order of the walk.
\* (Dropping items from a walk order of a set leaves a walk order of the
\* rest, and every walk order of the rest arises so.)
find_items_with_pattern(tree, pattern) ==
    walk_orders({item \in Below(tree, Root) : matches(item, pattern)})

(***************************************************************************)
(* Content Substitutor                                                     *)
(***************************************************************************)
\* replace_content_in_file without the returns of lines 309-310 and 315-316:
\* the file is written whether or not old occurs
replace_content_in_file_always_writing(tree, p, old, new) ==
    LET unchanged == [ret |-> FALSE, tree |-> tree]
        content   == read_text(tree[p].content)
        written(new_content) ==
            [ret |-> TRUE, tree |-> [tree EXCEPT ![p].content = new_content]]
    IN  IF ~Contains(Lower(file_stdout(tree, p)), Str_text) THEN unchanged
        ELSE IF case_sensitive
        THEN written(StrReplace(content, old, new))
        ELSE LET subst == re_sub(content, old, new)
             IN  IF subst.raised THEN unchanged ELSE written(subst.value)

\* [ret |-> the value returned, tree |-> the tree afterwards]
replace_content_in_file(tree, p, old, new) ==
    LET unchanged == [ret |-> FALSE, tree |-> tree]
        content   == read_text(tree[p].content)
        written(new_content) ==
            [ret |-> TRUE, tree |-> [tree EXCEPT ![p].content = new_content]]
    IN  IF ~Contains(Lower(file_stdout(tree, p)), Str_text) THEN unchanged
        ELSE IF case_sensitive
        THEN IF ~Contains(content, old) THEN unchanged
             ELSE written(StrReplace(content, old, new))
        ELSE IF ~SearchI(content, old) THEN unchanged
             ELSE LET subst == re_sub(content, old, new)
                  IN  IF subst.raised THEN unchanged ELSE written(subst.value)

\* the loop of replace_content_in_directory over one enumeration
RECURSIVE replace_each(_, _, _, _)
replace_each(tree, walk, old, new) ==
    IF walk = <<>> THEN [count |-> 0, tree |-> tree]
    ELSE LET file_path == Head(walk)
         IN  IF IsFile(tree, file_path) /\ ~HasGitPart(repo_dir \o file_path)
             THEN LET one  == replace_content_in_file(tree, file_path, old, new)
                      rest == replace_each(one.tree, Tail(walk), old, new)
                  IN  [count |-> rest.count + (IF one.ret THEN 1 ELSE 0),
                       tree  |-> rest.tree]
             ELSE replace_each(tree, Tail(walk), old, new)

\* the outcomes of replace_content_in_directory(dir_path, old, new)
replace_content_in_directory(tree, dir_path, old, new) ==
    {replace_each(tree, walk, old, new) : walk \in rglob(tree, dir_path)}

(***************************************************************************)
(* Name Transformer and Copy Engine                                        *)
(***************************************************************************)
\* lines 344-348: [raised |-> re.error was raised, value |-> new_name]
transform_name(item_name, old, new) ==
    IF case_sensitive
    THEN [raised |-> FALSE, value |-> StrReplace(item_name, old, new)]
    ELSE re_sub(item_name, old, new)

\* original_item.parent / new_name
sibling(item, new_name) ==
    IF new_name = <<>> THEN PathParent(item) ELSE PathParent(item) \o <<new_name>>

\* create_renamed_copy without the test of lines 357-359: the copy is made
\* over whatever holds the target name
create_renamed_copy_overwriting(tree, original_item, old, new, dry) ==
    LET item_name == PathName(original_item)
        renamed   == transform_name(item_name, old, new)
        new_name  == renamed.value
        new_item  == sibling(original_item, new_name)
        outcome(r, t) == [raised |-> FALSE, ret |-> r, tree |-> t]
    IN  IF renamed.raised
        THEN {[raised |-> TRUE, ret |-> FALSE, tree |-> tree]}
        ELSE IF new_name = item_name THEN {outcome(FALSE, tree)}
        ELSE IF dry THEN {outcome(TRUE, tree)}
        ELSE IF IsDir(tree, original_item)
        THEN {outcome(TRUE, r.tree) :
                 r \in replace_content_in_directory(
                           copytree(tree, original_item, new_item), new_item, old, new)}
        ELSE {outcome(TRUE, replace_content_in_file(
                                copy2(tree, original_item, new_item),
                                new_item, old, new).tree)}

\* create_renamed_copy returning True where lines 351-352 return False
create_renamed_copy_counting_unchanged(tree, original_item, old, new, dry) ==
    LET item_name == PathName(original_item)
        renamed   == transform_name(item_name, old, new)
        new_name  == renamed.value
        new_item  == sibling(original_item, new_name)
        outcome(r, t) == [raised |-> FALSE, ret |-> r, tree |-> t]
    IN  IF renamed.raised
        THEN {[raised |-> TRUE, ret |-> FALSE, tree |-> tree]}
        ELSE IF new_name = item_name THEN {outcome(TRUE, tree)}
        ELSE IF Exists(tree, new_item) THEN {outcome(FALSE, tree)}
        ELSE IF dry THEN {outcome(TRUE, tree)}
        ELSE IF IsDir(tree, original_item)
        THEN {outcome(TRUE, r.tree) :
                 r \in replace_content_in_directory(
                           copytree(tree, original_item, new_item), new_item, old, new)}
        ELSE {outcome(TRUE, replace_content_in_file(
                                copy2(tree, original_item, new_item),
                                new_item, old, new).tree)}

\* create_renamed_copy substituting in the original as well as in the copy
create_renamed_copy_touching_original(tree, original_item, old, new, dry) ==
    LET item_name == PathName(original_item)
        renamed   == transform_name(item_name, old, new)
        new_name  == renamed.value
        new_item  == sibling(original_item, new_name)
        outcome(r, t) == [raised |-> FALSE, ret |-> r, tree |-> t]
    IN  IF renamed.raised
        THEN {[raised |-> TRUE, ret |-> FALSE, tree |-> tree]}
        ELSE IF new_name = item_name THEN {outcome(FALSE, tree)}
        ELSE IF Exists(tree, new_item) THEN {outcome(FALSE, tree)}
        ELSE IF dry THEN {outcome(TRUE, tree)}
        ELSE IF IsDir(tree, original_item)
        THEN {outcome(TRUE, r.tree) :
                 r \in replace_content_in_directory(
                           copytree(tree, original_item, new_item),
                           PathParent(original_item), old, new)}
        ELSE {outcome(TRUE, replace_content_in_file(
                                replace_content_in_file(
                                    copy2(tree, original_item, new_item),
                                    new_item, old, new).tree,
                                original_item, old, new).tree)}

\* the outcomes of create_renamed_copy: [raised |-> an exception left the
\* function, ret |-> the value returned, tree |-> the tree afterwards]
create_renamed_copy(tree, original_item, old, new, dry) ==
    LET item_name == PathName(original_item)
        renamed   == transform_name(item_name, old, new)
        new_name  == renamed.value
        new_item  == sibling(original_item, new_name)
        outcome(r, t) == [raised |-> FALSE, ret |-> r, tree |-> t]
    IN  IF renamed.raised
        THEN {[raised |-> TRUE, ret |-> FALSE, tree |-> tree]}
        ELSE IF new_name = item_name THEN {outcome(FALSE, tree)}
        ELSE IF Exists(tree, new_item) THEN {outcome(FALSE, tree)}
        ELSE IF dry THEN {outcome(TRUE, tree)}
        ELSE IF IsDir(tree, original_item)
        THEN {outcome(TRUE, r.tree) :
                 r \in replace_content_in_directory(
                           copytree(tree, original_item, new_item), new_item, old, new)}
        ELSE {outcome(TRUE, replace_content_in_file(
                                copy2(tree, original_item, new_item),
                                new_item, old, new).tree)}

(***************************************************************************)
(* Fix Engine: the body of the loop over matching_items in                 *)
(* process_repository_fix_mode                                             *)
(***************************************************************************)
\* the loop body of fix mode writing the file although dry_run is set
fix_item_writing_when_dry(tree, item, old, new, dry) ==
    IF IsDir(tree, item)
    THEN IF dry THEN {[fixed |-> TRUE, tree |-> tree]}
         ELSE {[fixed |-> r.count > 0, tree |-> r.tree] :
                  r \in replace_content_in_directory(tree, item, old, new)}
    ELSE LET r == replace_content_in_file(tree, item, old, new)
         IN  {[fixed |-> r.ret, tree |-> r.tree]}

\* [fixed |-> items_fixed is incremented, tree |-> the tree afterwards]
fix_item(tree, item, old, new, dry) ==
    IF IsDir(tree, item)
    THEN IF dry THEN {[fixed |-> TRUE, tree |-> tree]}
         ELSE {[fixed |-> r.count > 0, tree |-> r.tree] :
                  r \in replace_content_in_directory(tree, item, old, new)}
    ELSE IF dry
         THEN {[fixed |-> Contains(read_text(tree[item].content), old), tree |-> tree]}
         ELSE LET r == replace_content_in_file(tree, item, old, new)
              IN  {[fixed |-> r.ret, tree |-> r.tree]}

(***************************************************************************)
(* The inputs: working trees, replacement pairs, flags                     *)
(***************************************************************************)
MaxEntries == 3
MaxPairs == 2
MaxRuns == 2

Str_dev    == <<"d","e","v">>
Str_Dev    == <<"D","e","v">>
Str_prod   == <<"p","r","o","d">>
Str_Devdev == <<"D","e","v"," ","d","e","v">>
Str_bin    == <<NulByte,"d","e","v">>
Str_latin  == <<"D",HighByte,"e","v">>
Str_esc_n  == <<Backslash,"n">>
Str_esc_d  == <<Backslash,"d">>

\* the entries a working tree is made of
EntryPool ==
    { [path |-> <<Str_dev>>,           node |-> DirNode],
      [path |-> <<Str_Dev>>,           node |-> FileNode(Str_dev)],
      [path |-> <<Str_prod>>,          node |-> FileNode(Str_latin)],
      [path |-> <<Str_dev, Str_dev>>,  node |-> FileNode(Str_Devdev)],
      [path |-> <<Str_dev, Str_text>>, node |-> FileNode(Str_bin)],
      [path |-> <<Str_git>>,           node |-> DirNode],
      [path |-> <<Str_git, Str_dev>>,  node |-> FileNode(Str_dev)] }

\* a set of entries is a tree when every entry's parent is a directory of it
IsTree(S) ==
    \A e \in S :
        \/ Len(e.path) = 1
        \/ \E d \in S : d.path = PathParent(e.path) /\ d.node.kind = "dir"

TreeOf(S) == [p \in {e.path : e \in S} |-> (CHOOSE e \in S : e.path = p).node]

InitialTrees ==
    {TreeOf(S) : S \in {T \in SUBSET EntryPool : Cardinality(T) <= MaxEntries /\ IsTree(T)}}

\* the pairs REPLACEMENTS is made of
PairPool ==
    { <<Str_dev, Str_prod>>,
      <<Str_Dev, Str_dev>>,
      <<Str_dev, Str_esc_n>>,
      <<Str_dev, Str_esc_d>> }

PairLists ==
    UNION {{l \in [1..n -> PairPool] : \A i, j \in 1..n : l[i] = l[j] => i = j} :
           n \in 1..MaxPairs}

(***************************************************************************)
(* The repository list, the working directory and the log                  *)
(***************************************************************************)
\* lines of the repository list, without their line ends
Line_a       == <<"a">>
Line_b       == <<"b">>
Line_comment == <<"#", "a">>
Line_blank   == <<" ">>

\* Path(self.repo_list_file): absent, or a file of lines
NoFile == [exists |-> FALSE, lines |-> <<>>]
ListFile(lines) == [exists |-> TRUE, lines |-> lines]

\* self.work_dir: absent, or a directory holding clones by name
NoDir == [exists |-> FALSE, clones |-> {}]
WorkDir(clones) == [exists |-> TRUE, clones |-> clones]

\* one line of the log: the "Repository: ... | Status: ..." lines, and the
\* lines run writes at its start and at its end (repo "")
LogLine(repo, status) == [repo |-> repo, status |-> status]

\* the values of the state of run with which process_repository is in its
\* loops: one repository listed and cloned, no branch configured
InRepository ==
    /\ repo_list_file = ListFile(<<Line_a>>)
    /\ push = FALSE
    /\ base_branch = ""
    /\ branch_name = ""
    /\ auto_create_branch = TRUE
    /\ work_dir = WorkDir({Line_a})
    /\ log_file = <<LogLine(<<>>, "STARTED"), LogLine(Line_a, "CLONED")>>
    /\ line_idx = 1
    /\ total_repos = 1
    /\ successful_repos = 0
    /\ total_items = 0
    /\ retry = 0
    /\ current_branch = "main"
    /\ local_branches = {"main"}
    /\ exit_code = <<>>
    /\ setup_failed = FALSE
    /\ processed = <<Line_a>>

(***************************************************************************)
(* process_repository and process_repository_fix_mode, from the loop over  *)
(* self.replacements on                                                    *)
(***************************************************************************)
Init ==
    /\ fs \in InitialTrees
    /\ case_sensitive \in BOOLEAN
    /\ fix_mode \in BOOLEAN
    /\ replacements \in PairLists
    /\ dry_run \in BOOLEAN
    /\ pc = "pair"
    /\ pair_idx = 1
    /\ matching_items = <<>>
    /\ item_idx = 1
    /\ items_count = 0
    /\ run_no = 1
    /\ start_fs = fs
    /\ finished = <<>>
    /\ searched = <<>>
    /\ last = [op |-> "none"]
    /\ InRepository

old_str == replacements[pair_idx][1]
new_str == replacements[pair_idx][2]

\* the pattern the pair is matched by: old, or new in fix mode
search_pattern == IF fix_mode THEN new_str ELSE old_str

\* the match set taken from the tree as the run found it, not from the tree
\* as the earlier pairs left it
FindItems_on_start_tree ==
    /\ pc = "pair"
    /\ pair_idx <= Len(replacements)
    /\ \E found \in find_items_with_pattern(start_fs, search_pattern) :
           matching_items' = found
    /\ item_idx' = 1
    /\ pc' = "items"
    /\ searched' = Append(searched, pair_idx)
    /\ last' = [op |-> "find", pattern |-> search_pattern, pre |-> fs,
                listed |-> Len(matching_items), handled |-> item_idx - 1]
    /\ UNCHANGED <<fs, config, orchestration, dry_run, pair_idx, items_count, run_no, start_fs, finished>>

\* lines 411 and 468: matching_items = self.find_items_with_pattern(...)
FindItems ==
    /\ pc = "pair"
    /\ pair_idx <= Len(replacements)
    /\ \E found \in find_items_with_pattern(fs, search_pattern) :
           matching_items' = found
    /\ item_idx' = 1
    /\ pc' = "items"
    /\ searched' = Append(searched, pair_idx)
    /\ last' = [op |-> "find", pattern |-> search_pattern, pre |-> fs,
                listed |-> Len(matching_items), handled |-> item_idx - 1]
    /\ UNCHANGED <<fs, config, orchestration, dry_run, pair_idx, items_count, run_no, start_fs, finished>>

\* the loop over the items with the tree searched again after every copy,
\* as a loop over the walk itself would see it
CopyItem_searching_again ==
    /\ pc = "items"
    /\ ~fix_mode
    /\ item_idx <= Len(matching_items)
    /\ LET item == matching_items[item_idx]
       IN  \E out \in create_renamed_copy(fs, item, old_str, new_str, dry_run) :
               /\ last' = [op |-> "copy", item |-> item, old |-> old_str, new |-> new_str,
                           raised |-> out.raised, ret |-> out.ret, pre |-> fs,
                           count |-> items_count]
               /\ fs' = out.tree
               /\ matching_items' \in find_items_with_pattern(out.tree, search_pattern)
               /\ IF out.raised
                  THEN pc' = "crashed" /\ UNCHANGED <<item_idx, items_count>>
                  ELSE /\ pc' = pc
                       /\ item_idx' = item_idx + 1
                       /\ items_count' = IF out.ret THEN items_count + 1 ELSE items_count
    /\ UNCHANGED <<config, orchestration, dry_run, pair_idx, run_no, start_fs, finished,
                   searched>>

\* lines 419-428: one iteration of the loop over matching_items
CopyItem ==
    /\ pc = "items"
    /\ ~fix_mode
    /\ item_idx <= Len(matching_items)
    /\ LET item == matching_items[item_idx]
       IN  \E out \in create_renamed_copy(fs, item, old_str, new_str, dry_run) :
               /\ last' = [op |-> "copy", item |-> item, old |-> old_str, new |-> new_str,
                           raised |-> out.raised, ret |-> out.ret, pre |-> fs,
                           count |-> items_count]
               /\ fs' = out.tree
               /\ IF out.raised
                  THEN pc' = "crashed" /\ UNCHANGED <<item_idx, items_count>>
                  ELSE /\ pc' = pc
                       /\ item_idx' = item_idx + 1
                       /\ items_count' = IF out.ret THEN items_count + 1 ELSE items_count
    /\ UNCHANGED <<config, orchestration, dry_run, pair_idx, matching_items, run_no, start_fs, finished,
                   searched>>

\* lines 476-510: one iteration of the loop over matching_items, fix mode
FixItem ==
    /\ pc = "items"
    /\ fix_mode
    /\ item_idx <= Len(matching_items)
    /\ LET item == matching_items[item_idx]
       IN  \E out \in fix_item(fs, item, old_str, new_str, dry_run) :
               /\ last' = [op |-> "fix", item |-> item, old |-> old_str, new |-> new_str,
                           fixed |-> out.fixed, pre |-> fs, count |-> items_count]
               /\ fs' = out.tree
               /\ items_count' = IF out.fixed THEN items_count + 1 ELSE items_count
    /\ item_idx' = item_idx + 1
    /\ UNCHANGED <<config, orchestration, dry_run, pc, pair_idx, matching_items, run_no, start_fs,
                   finished, searched>>

\* the loop over matching_items is exhausted (or the list was empty:
\* continue): on to the next pair
EndPair ==
    /\ pc = "items"
    /\ item_idx > Len(matching_items)
    /\ pair_idx' = pair_idx + 1
    /\ pc' = "pair"
    /\ last' = [op |-> "next"]
    /\ UNCHANGED <<fs, config, orchestration, dry_run, matching_items, item_idx, items_count,
                   run_no, start_fs, finished, searched>>

\* lines 439 and 521: return items_copied / items_fixed
Return ==
    /\ pc = "pair"
    /\ pair_idx > Len(replacements)
    /\ pc' = "done"
    /\ finished' = Append(finished, [dry |-> dry_run, count |-> items_count,
                                     start |-> start_fs, final |-> fs])
    /\ last' = [op |-> "return"]
    /\ UNCHANGED <<fs, config, orchestration, dry_run, pair_idx, matching_items, item_idx,
                   items_count, run_no, start_fs, searched>>

\* the tool is run again, now without --dry-run, on the clone the previous
\* run left (clone_repository: "Using existing clone")
Rerun ==
    /\ pc = "done"
    /\ run_no < MaxRuns
    /\ run_no' = run_no + 1
    /\ dry_run' = FALSE
    /\ pc' = "pair"
    /\ pair_idx' = 1
    /\ matching_items' = <<>>
    /\ item_idx' = 1
    /\ items_count' = 0
    /\ start_fs' = fs
    /\ searched' = <<>>
    /\ last' = [op |-> "none"]
    /\ UNCHANGED <<fs, config, orchestration, finished>>

Next == FindItems \/ CopyItem \/ FixItem \/ EndPair \/ Return \/ Rerun

Spec == Init /\ [][Next]_vars

(***************************************************************************)
(* run: the loop over the repository list, with clone_repository, the      *)
(* branch setup and git_add_commit_push around the loops above             *)
(***************************************************************************)
MaxLines == 2
max_retries == 3

LinePool == {Line_a, Line_b, Line_comment, Line_blank}

RepoListFiles ==
    {NoFile} \cup
    {ListFile(l) : l \in UNION {[1..n -> LinePool] : n \in 0..MaxLines}}

\* REPLACEMENTS of the runs: none, or one pair
RunPairLists == {<<>>, << <<Str_dev, Str_prod>> >>}

\* the trees a clone, a checkout or a pull can leave below repo_dir: one
\* with a directory to copy, one with a file to fix
RemoteTrees ==
    {t \in InitialTrees : DOMAIN t \in {{<<Str_dev>>}, {<<Str_prod>>}}}

\* BASE_BRANCH, BRANCH_NAME and AUTO_CREATE_BRANCH of the runs
BranchSettings ==
    { [base |-> "",     branch |-> "",     auto |-> TRUE],
      [base |-> "base", branch |-> "",     auto |-> TRUE],
      [base |-> "",     branch |-> "work", auto |-> TRUE],
      [base |-> "",     branch |-> "work", auto |-> FALSE],
      [base |-> "base", branch |-> "work", auto |-> TRUE],
      [base |-> "base", branch |-> "work", auto |-> FALSE] }

\* WORK_DIR as a run finds it: absent, or holding a clone of a
StartWorkDirs == {NoDir, WorkDir({Line_a})}

\* the branch states an existing clone can be found in
ExistingClones ==
    { [current |-> "main", locals |-> {"main"}],
      [current |-> "main", locals |-> {"main", "work"}],
      [current |-> "work", locals |-> {"main", "work"}] }

\* str.strip() on a line
IsSpace(c) == c \in {" ", "\t", "\n"}

RECURSIVE lstrip(_)
lstrip(s) == IF s # <<>> /\ IsSpace(Head(s)) THEN lstrip(Tail(s)) ELSE s

RECURSIVE rstrip(_)
rstrip(s) ==
    IF s # <<>> /\ IsSpace(s[Len(s)]) THEN rstrip(SubSeq(s, 1, Len(s) - 1)) ELSE s

strip(s) == rstrip(lstrip(s))

\* line 633: not line or line.startswith('#')
is_skipped(line) == IF line = <<>> THEN TRUE ELSE Head(line) = "#"

\* repo_input.rstrip('.git'): the trailing characters among . g i t go
RECURSIVE get_repo_name(_)
get_repo_name(repo_input) ==
    IF repo_input # <<>> /\ repo_input[Len(repo_input)] \in {".", "g", "i", "t"}
    THEN get_repo_name(SubSeq(repo_input, 1, Len(repo_input) - 1))
    ELSE repo_input

\* the line the loop of run is at, stripped, and the clone's name
current_line == strip(repo_list_file.lines[line_idx])
repo_name == get_repo_name(processed[Len(processed)])

\* one run_command(['git', ...]) and whether it succeeded
Call(cmd, ok) == [cmd |-> cmd, ok |-> ok]

\* what the last version-control function did: the commands it ran, what
\* it returned (<<>> while it goes on), the turn of the retry loop the
\* commands were run in (retry + 1), the branch checked out when it was
\* called, and whether an earlier setup function of this repository had
\* returned False
GitStep(fn, calls, ret) ==
    [op |-> "git", fn |-> fn, calls |-> calls, ret |-> ret, attempt |-> retry + 1,
     on |-> current_branch, after_failure |-> setup_failed, dry |-> dry_run]

\* the state run is called in; CASE_SENSITIVE is false in the runs, so that
\* both trees of RemoteTrees give the loops an item to count
RunInit ==
    /\ fs = TreeOf({})
    /\ case_sensitive = FALSE
    /\ fix_mode \in BOOLEAN
    /\ replacements \in RunPairLists
    /\ dry_run \in BOOLEAN
    /\ pc = "run"
    /\ pair_idx = 1
    /\ matching_items = <<>>
    /\ item_idx = 1
    /\ items_count = 0
    /\ run_no = 1
    /\ start_fs = fs
    /\ finished = <<>>
    /\ searched = <<>>
    /\ last = [op |-> "none"]
    /\ repo_list_file \in RepoListFiles
    /\ push \in BOOLEAN
    /\ \E b \in BranchSettings :
           /\ base_branch = b.base
           /\ branch_name = b.branch
           /\ auto_create_branch = b.auto
    /\ work_dir \in StartWorkDirs
    /\ log_file = <<>>
    /\ line_idx = 1
    /\ total_repos = 0
    /\ successful_repos = 0
    /\ total_items = 0
    /\ retry = 0
    /\ current_branch = ""
    /\ local_branches = {}
    /\ exit_code = <<>>
    /\ setup_failed = FALSE
    /\ processed = <<>>

\* the variables of the loops of process_repository
loops == <<pair_idx, matching_items, item_idx, items_count, run_no, start_fs,
           finished, searched>>

\* the arguments and the settings of a run
settings == <<config, dry_run, repo_list_file, push, base_branch, branch_name,
              auto_create_branch>>

\* run making the working directory before it validates
StartRun_making_work_dir_first ==
    /\ pc = "run"
    /\ log_file' = Append(log_file, LogLine(<<>>, "STARTED"))
    /\ work_dir' = WorkDir(work_dir.clones)
    /\ IF ~repo_list_file.exists \/ replacements = <<>>
       THEN /\ exit_code' = <<1>>
            /\ pc' = "exit"
       ELSE /\ pc' = "line"
            /\ UNCHANGED exit_code
    /\ last' = [op |-> "run"]
    /\ UNCHANGED <<fs, settings, loops, line_idx, total_repos, successful_repos,
                   total_items, retry, current_branch, local_branches,
                   setup_failed, processed>>

\* lines 595-626: the log is begun, the list and the pairs are validated,
\* the working directory is made
StartRun ==
    /\ pc = "run"
    /\ log_file' = Append(log_file, LogLine(<<>>, "STARTED"))
    /\ IF ~repo_list_file.exists \/ replacements = <<>>
       THEN /\ exit_code' = <<1>>
            /\ pc' = "exit"
            /\ UNCHANGED work_dir
       ELSE /\ work_dir' = WorkDir(work_dir.clones)
            /\ pc' = "line"
            /\ UNCHANGED exit_code
    /\ last' = [op |-> "run"]
    /\ UNCHANGED <<fs, settings, loops, line_idx, total_repos, successful_repos,
                   total_items, retry, current_branch, local_branches,
                   setup_failed, processed>>

\* lines 629-634: a blank line or a comment is passed over
SkipLine ==
    /\ pc = "line"
    /\ line_idx <= Len(repo_list_file.lines)
    /\ is_skipped(current_line)
    /\ line_idx' = line_idx + 1
    /\ last' = [op |-> "skip"]
    /\ UNCHANGED <<fs, settings, loops, pc, work_dir, log_file, total_repos,
                   successful_repos, total_items, retry, current_branch,
                   local_branches, exit_code, setup_failed, processed>>

\* lines 636-642 and 386-390: process_repository is called with the line
BeginRepository ==
    /\ pc = "line"
    /\ line_idx <= Len(repo_list_file.lines)
    /\ ~is_skipped(current_line)
    /\ total_repos' = total_repos + 1
    /\ processed' = Append(processed, current_line)
    /\ retry' = 0
    /\ setup_failed' = FALSE
    /\ pc' = "clone"
    /\ finished' = <<>>
    /\ last' = [op |-> "begin"]
    /\ UNCHANGED <<fs, settings, pair_idx, matching_items, item_idx, items_count,
                   run_no, start_fs, searched, work_dir, log_file, line_idx,
                   successful_repos, total_items, current_branch, local_branches,
                   exit_code>>

\* lines 154-156: the clone is there already
CloneExisting ==
    /\ pc = "clone"
    /\ repo_name \in work_dir.clones
    /\ log_file' = Append(log_file, LogLine(repo_name, "EXISTS"))
    /\ fs' \in RemoteTrees
    /\ \E c \in ExistingClones :
           current_branch' = c.current /\ local_branches' = c.locals
    /\ pc' = "base"
    /\ last' = [op |-> "exists"]
    /\ UNCHANGED <<settings, loops, work_dir, line_idx, total_repos,
                   successful_repos, total_items, retry, exit_code, setup_failed,
                   processed>>

\* the loop of clone_repository giving up at the first failed attempt
CloneAttempt_giving_up_at_once ==
    /\ pc = "clone"
    /\ repo_name \notin work_dir.clones
    /\ retry < max_retries
    /\ \E ok \in BOOLEAN :
           IF ok
           THEN /\ work_dir' = WorkDir(work_dir.clones \cup {repo_name})
                /\ log_file' = Append(log_file, LogLine(repo_name, "CLONED"))
                /\ fs' \in RemoteTrees
                /\ current_branch' = "main"
                /\ local_branches' = {"main"}
                /\ pc' = "base"
                /\ last' = [GitStep("clone_repository", <<Call("clone", TRUE)>>, <<TRUE>>)
                               EXCEPT !.on = ""]
                /\ UNCHANGED <<retry, items_count>>
           ELSE /\ log_file' = Append(log_file, LogLine(repo_name, "FAILED"))
                /\ items_count' = 0
                /\ pc' = "returned"
                /\ last' = [GitStep("clone_repository", <<Call("clone", FALSE)>>, <<FALSE>>)
                               EXCEPT !.on = ""]
                /\ UNCHANGED <<fs, work_dir, current_branch, local_branches, retry>>
    /\ UNCHANGED <<settings, pair_idx, matching_items, item_idx, run_no, start_fs,
                   finished, searched, line_idx, total_repos, successful_repos,
                   total_items, exit_code, setup_failed, processed>>

\* lines 160-175: one turn of the retry loop of clone_repository; on the
\* last failure process_repository returns 0 (line 394)
CloneAttempt ==
    /\ pc = "clone"
    /\ repo_name \notin work_dir.clones
    /\ retry < max_retries
    /\ \E ok \in BOOLEAN :
           IF ok
           THEN /\ work_dir' = WorkDir(work_dir.clones \cup {repo_name})
                /\ log_file' = Append(log_file, LogLine(repo_name, "CLONED"))
                /\ fs' \in RemoteTrees
                /\ current_branch' = "main"
                /\ local_branches' = {"main"}
                /\ pc' = "base"
                /\ last' = [GitStep("clone_repository", <<Call("clone", TRUE)>>, <<TRUE>>)
                               EXCEPT !.on = ""]
                /\ UNCHANGED <<retry, items_count>>
           ELSE IF retry < max_retries - 1
           THEN /\ retry' = retry + 1
                /\ last' = [GitStep("clone_repository", <<Call("clone", FALSE)>>, <<>>)
                               EXCEPT !.on = ""]
                /\ UNCHANGED <<fs, work_dir, log_file, current_branch, local_branches,
                               pc, items_count>>
           ELSE /\ log_file' = Append(log_file, LogLine(repo_name, "FAILED"))
                /\ items_count' = 0
                /\ pc' = "returned"
                /\ last' = [GitStep("clone_repository", <<Call("clone", FALSE)>>, <<FALSE>>)
                               EXCEPT !.on = ""]
                /\ UNCHANGED <<fs, work_dir, current_branch, local_branches, retry>>
    /\ UNCHANGED <<settings, pair_idx, matching_items, item_idx, run_no, start_fs,
                   finished, searched, line_idx, total_repos, successful_repos,
                   total_items, exit_code, setup_failed, processed>>

\* the outcomes of checkout_base_branch on a clone with branch cur checked
\* out: [ret |-> the value returned, calls |-> the commands run, current,
\* locals |-> the branches afterwards, moved |-> a checkout or a pull
\* replaced the working tree]
checkout_base_branch(cur, locals) ==
    LET out(ret, calls, c, l, moved) ==
            [ret |-> ret, calls |-> calls, current |-> c, locals |-> l, moved |-> moved]
        with_base == locals \cup {base_branch}
        \* lines 204-222, on the base branch
        update(calls, moved) ==
            {out(FALSE, calls \o <<Call("fetch", FALSE)>>, base_branch, with_base, moved)}
            \cup {out(TRUE, calls \o <<Call("fetch", TRUE), Call("rev-list", TRUE)>>,
                      base_branch, with_base, moved)}
            \cup UNION {
                  { out(TRUE, calls \o <<Call("fetch", TRUE), Call("rev-list", counted),
                                         Call("pull", TRUE)>>,
                        base_branch, with_base, TRUE),
                    out(FALSE, calls \o <<Call("fetch", TRUE), Call("rev-list", counted),
                                          Call("pull", FALSE)>>,
                        base_branch, with_base, moved) } : counted \in BOOLEAN}
        shown == <<Call("branch --show-current", TRUE)>>
    IN  {out(FALSE, <<Call("branch --show-current", FALSE)>>, cur, locals, FALSE)}
        \cup (IF cur = base_branch
              THEN update(shown, FALSE)
              ELSE update(shown \o <<Call("checkout", TRUE)>>, TRUE)
                   \cup {out(FALSE, shown \o <<Call("checkout", FALSE), Call("fetch", FALSE)>>,
                             cur, locals, FALSE)}
                   \cup {out(FALSE, shown \o <<Call("checkout", FALSE), Call("fetch", TRUE),
                                               Call("checkout", FALSE)>>,
                             cur, with_base, FALSE)}
                   \cup update(shown \o <<Call("checkout", FALSE), Call("fetch", TRUE),
                                          Call("checkout", TRUE)>>, TRUE))

\* lines 396-398: the base branch is checked out when one is configured; the
\* value checkout_base_branch returns is not looked at
CheckoutBase ==
    /\ pc = "base"
    /\ IF base_branch = ""
       THEN /\ last' = [op |-> "no base"]
            /\ UNCHANGED <<fs, current_branch, local_branches, setup_failed>>
       ELSE \E o \in checkout_base_branch(current_branch, local_branches) :
               /\ current_branch' = o.current
               /\ local_branches' = o.locals
               /\ fs' \in (IF o.moved THEN RemoteTrees ELSE {fs})
               /\ setup_failed' = (setup_failed \/ ~o.ret)
               /\ last' = GitStep("checkout_base_branch", o.calls, <<o.ret>>)
    /\ pc' = "branch"
    /\ UNCHANGED <<settings, loops, work_dir, log_file, line_idx, total_repos,
                   successful_repos, total_items, retry, exit_code, processed>>

\* the outcomes of create_or_checkout_branch, as for checkout_base_branch
create_or_checkout_branch(cur, locals) ==
    LET out(ret, calls, c, l, moved) ==
            [ret |-> ret, calls |-> calls, current |-> c, locals |-> l, moved |-> moved]
        shown(found) == <<Call("show-ref", found)>>
    IN  IF branch_name \in locals
        THEN {out(FALSE, shown(TRUE) \o <<Call("checkout", FALSE)>>, cur, locals, FALSE)}
             \cup {out(TRUE, shown(TRUE) \o <<Call("checkout", TRUE), Call("fetch", fetched),
                                              Call("rev-list", TRUE)>>,
                       branch_name, locals, cur # branch_name) : fetched \in BOOLEAN}
             \cup {out(TRUE, shown(TRUE) \o <<Call("checkout", TRUE), Call("fetch", fetched),
                                              Call("rev-list", counted), Call("pull", pulled)>>,
                       branch_name, locals, pulled \/ cur # branch_name) :
                     fetched \in BOOLEAN, counted \in BOOLEAN, pulled \in BOOLEAN}
        ELSE IF auto_create_branch
        THEN { out(TRUE, shown(FALSE) \o <<Call("checkout -b", TRUE)>>,
                   branch_name, locals \cup {branch_name}, FALSE),
               out(FALSE, shown(FALSE) \o <<Call("checkout -b", FALSE)>>, cur, locals, FALSE) }
        ELSE {out(FALSE, shown(FALSE), cur, locals, FALSE)}

\* lines 400-404: the working branch is checked out or created when one is
\* configured; the value returned is not looked at; the loop over the
\* pairs is entered
CreateOrCheckoutBranch ==
    /\ pc = "branch"
    /\ IF branch_name = ""
       THEN /\ last' = [op |-> "no branch"]
            /\ UNCHANGED <<fs, current_branch, local_branches, setup_failed>>
       ELSE \E o \in create_or_checkout_branch(current_branch, local_branches) :
               /\ current_branch' = o.current
               /\ local_branches' = o.locals
               /\ fs' \in (IF o.moved THEN RemoteTrees ELSE {fs})
               /\ setup_failed' = (setup_failed \/ ~o.ret)
               /\ last' = GitStep("create_or_checkout_branch", o.calls, <<o.ret>>)
    /\ pc' = "pair"
    /\ pair_idx' = 1
    /\ matching_items' = <<>>
    /\ item_idx' = 1
    /\ items_count' = 0
    /\ start_fs' = fs'
    /\ searched' = <<>>
    /\ UNCHANGED <<settings, run_no, finished, work_dir, log_file, line_idx,
                   total_repos, successful_repos, total_items, retry, exit_code,
                   processed>>

\* lines 370-377 when shutil.copytree or shutil.copy2 raises: the target is
\* not made, or is left as far as the copy came; nothing catches the error,
\* it leaves create_renamed_copy, process_repository and run
CopyItemRaises ==
    /\ pc = "items"
    /\ ~fix_mode
    /\ ~dry_run
    /\ item_idx <= Len(matching_items)
    /\ LET item == matching_items[item_idx]
           renamed == transform_name(PathName(item), old_str, new_str)
           new_item == sibling(item, renamed.value)
       IN  /\ ~renamed.raised
           /\ renamed.value # PathName(item)
           /\ ~Exists(fs, new_item)
           /\ fs' \in {fs, IF IsDir(fs, item) THEN copytree(fs, item, new_item)
                                              ELSE copy2(fs, item, new_item)}
           /\ last' = [op |-> "copy", item |-> item, old |-> old_str, new |-> new_str,
                       raised |-> TRUE, ret |-> FALSE, pre |-> fs, count |-> items_count]
    /\ pc' = "crashed"
    /\ UNCHANGED <<settings, loops, orchestration>>

\* lines 433-437 and 515-519: whether git_add_commit_push is called
Publish ==
    /\ pc = "done"
    /\ pc' = IF push /\ ~dry_run /\ items_count > 0 THEN "status" ELSE "returned"
    /\ last' = [op |-> "publish"]
    /\ UNCHANGED <<fs, settings, loops, orchestration>>

\* lines 529-532: git status --porcelain
GitStatus ==
    /\ pc = "status"
    /\ \E ok \in BOOLEAN, changes \in BOOLEAN :
           /\ ~ok => ~changes
           /\ pc' = IF ok /\ changes THEN "add" ELSE "returned"
           /\ last' = GitStep("git_add_commit_push", <<Call("status", ok)>>,
                              IF ok /\ changes THEN <<>> ELSE <<ok>>)
    /\ UNCHANGED <<fs, settings, loops, orchestration>>

\* git add -A with its failure not stopping the function
GitAdd_going_on_after_failure ==
    /\ pc = "add"
    /\ \E ok \in BOOLEAN :
           /\ pc' = "commit"
           /\ last' = GitStep("git_add_commit_push", <<Call("add", ok)>>, <<>>)
    /\ UNCHANGED <<fs, settings, loops, orchestration>>

\* line 538: git add -A
GitAdd ==
    /\ pc = "add"
    /\ \E ok \in BOOLEAN :
           /\ pc' = IF ok THEN "commit" ELSE "returned"
           /\ last' = GitStep("git_add_commit_push", <<Call("add", ok)>>,
                              IF ok THEN <<>> ELSE <<FALSE>>)
    /\ UNCHANGED <<fs, settings, loops, orchestration>>

\* lines 542-546: git commit, then git branch --show-current
GitCommit ==
    /\ pc = "commit"
    /\ \E ok \in BOOLEAN, shown \in BOOLEAN :
           /\ ~ok => ~shown
           /\ pc' = IF shown THEN "push" ELSE "returned"
           /\ last' = GitStep("git_add_commit_push",
                              IF ok THEN <<Call("commit", TRUE),
                                           Call("branch --show-current", shown)>>
                                    ELSE <<Call("commit", FALSE)>>,
                              IF shown THEN <<>> ELSE <<FALSE>>)
    /\ retry' = 0
    /\ UNCHANGED <<fs, settings, loops, repo_list_file, work_dir, log_file, line_idx,
                   total_repos, successful_repos, total_items, current_branch,
                   local_branches, exit_code, setup_failed, processed>>

\* lines 550-565: one turn of the retry loop of the push
PushAttempt ==
    /\ pc = "push"
    /\ retry < max_retries
    /\ \E ok \in BOOLEAN :
           IF ok
           THEN /\ log_file' = Append(log_file, LogLine(repo_name, "PUSHED"))
                /\ pc' = "returned"
                /\ last' = GitStep("git_add_commit_push", <<Call("push", TRUE)>>, <<TRUE>>)
                /\ UNCHANGED retry
           ELSE IF retry < max_retries - 1
           THEN /\ retry' = retry + 1
                /\ last' = GitStep("git_add_commit_push", <<Call("push", FALSE)>>, <<>>)
                /\ UNCHANGED <<log_file, pc>>
           ELSE /\ log_file' = Append(log_file, LogLine(repo_name, "PUSH_FAILED"))
                /\ pc' = "returned"
                /\ last' = GitStep("git_add_commit_push", <<Call("push", FALSE)>>, <<FALSE>>)
                /\ UNCHANGED retry
    /\ UNCHANGED <<fs, settings, loops, work_dir, line_idx, total_repos,
                   successful_repos, total_items, current_branch, local_branches,
                   exit_code, setup_failed, processed>>

\* the loop of run left when a repository's clone has failed
Tally_leaving_on_failed_clone ==
    /\ pc = "returned"
    /\ IF items_count >= 0
       THEN /\ successful_repos' = successful_repos + 1
            /\ total_items' = total_items + items_count
       ELSE UNCHANGED <<successful_repos, total_items>>
    /\ line_idx' = IF log_file[Len(log_file)].status = "FAILED"
                   THEN Len(repo_list_file.lines) + 1
                   ELSE line_idx + 1
    /\ pc' = "line"
    /\ last' = [op |-> "tally", items |-> items_count]
    /\ UNCHANGED <<fs, settings, loops, work_dir, log_file, total_repos, retry,
                   current_branch, local_branches, exit_code, setup_failed, processed>>

\* lines 644-646: process_repository returned items; the tally
Tally ==
    /\ pc = "returned"
    /\ IF items_count >= 0
       THEN /\ successful_repos' = successful_repos + 1
            /\ total_items' = total_items + items_count
       ELSE UNCHANGED <<successful_repos, total_items>>
    /\ line_idx' = line_idx + 1
    /\ pc' = "line"
    /\ last' = [op |-> "tally", items |-> items_count]
    /\ UNCHANGED <<fs, settings, loops, work_dir, log_file, total_repos, retry,
                   current_branch, local_branches, exit_code, setup_failed, processed>>

\* lines 648-670: the list is exhausted; the summary and the exit status
Summary ==
    /\ pc = "line"
    /\ line_idx > Len(repo_list_file.lines)
    /\ log_file' = Append(log_file, LogLine(<<>>, "COMPLETED"))
    /\ exit_code' = <<IF successful_repos = total_repos THEN 0 ELSE 1>>
    /\ pc' = "exit"
    /\ last' = [op |-> "summary"]
    /\ UNCHANGED <<fs, settings, loops, work_dir, line_idx, total_repos,
                   successful_repos, total_items, retry, current_branch,
                   local_branches, setup_failed, processed>>

RunNext ==
    \/ StartRun \/ SkipLine \/ BeginRepository \/ CloneExisting \/ CloneAttempt
    \/ CheckoutBase \/ CreateOrCheckoutBranch
    \/ FindItems \/ CopyItem \/ CopyItemRaises \/ FixItem \/ EndPair \/ Return
    \/ Publish \/ GitStatus \/ GitAdd \/ GitCommit \/ PushAttempt
    \/ Tally \/ Summary

RunSpec == RunInit /\ [][RunNext]_vars

\* the runs of the specification with fairness: every list of two lines,
\* a clone of a in the working directory, no branch configured, --push
FairRunInit ==
    /\ RunInit
    /\ repo_list_file \in {ListFile(l) : l \in [1..2 -> LinePool]}
    /\ work_dir = WorkDir({Line_a})
    /\ replacements # <<>>
    /\ base_branch = ""
    /\ branch_name = ""
    /\ push
    /\ ~dry_run

\* the program never stops between two of its steps
FairRunSpec == FairRunInit /\ [][RunNext]_vars /\ WF_vars(RunNext)

(***************************************************************************)
(* Properties                                                              *)
(***************************************************************************)
\* the name and the sibling path the last create_renamed_copy computed
LastRenamed == transform_name(PathName(last.item), last.old, last.new)
LastTarget == sibling(last.item, LastRenamed.value)

\* every entry of tree a is an entry of tree b, with the same kind and content
Preserved(a, b) == \A p \in DOMAIN a : p \in DOMAIN b /\ b[p] = a[p]

\* C1: non-destructive copy.  When an entry already holds the sibling path
\* with the transformed name, create_renamed_copy returns False and leaves
\* the whole tree as it was; and no call of create_renamed_copy changes or
\* removes an entry that existed before the call.
C1_NonDestructiveCopy ==
    last.op = "copy" =>
        /\ ( /\ ~LastRenamed.raised
             /\ LastRenamed.value # PathName(last.item)
             /\ Exists(last.pre, LastTarget) )
           => (~last.ret /\ fs = last.pre)
        /\ Preserved(last.pre, fs)

\* a copy was refused because the target name was taken, in a run that
\* writes
C1_Witness ==
    /\ last.op = "copy"
    /\ ~dry_run
    /\ ~LastRenamed.raised
    /\ LastRenamed.value # PathName(last.item)
    /\ LastTarget \in DOMAIN last.pre
    /\ ~last.ret

\* C2: in normal mode the originals are preserved.  Throughout and after a
\* pass of process_repository every entry the pass found is still there
\* with the same kind and content; whatever differs from the tree found is
\* a new path.
C2_OriginalsPreserved ==
    ~fix_mode =>
        /\ Preserved(start_fs, fs)
        /\ \A r \in 1..Len(finished) : Preserved(finished[r].start, finished[r].final)

\* a pass that wrote has returned: it created a copy whose content is the
\* substituted content of the original, which still has its own
C2_Witness ==
    /\ ~fix_mode
    /\ pc = "done"
    /\ ~dry_run
    /\ items_count > 0
    /\ \E p \in DOMAIN start_fs, q \in DOMAIN fs \ DOMAIN start_fs :
           /\ IsFile(fs, p) /\ IsFile(fs, q)
           /\ PathParent(p) = PathParent(q)
           /\ fs[q].content # fs[p].content
           /\ fs[q].content = StrReplace(fs[p].content, replacements[1][1], replacements[1][2])

\* C3: dry-run purity of the engines.  With dry_run set, neither
\* create_renamed_copy nor the loop of fix mode changes the tree.
C3_DryRunPure ==
    dry_run =>
        /\ fs = start_fs
        /\ last.op \in {"copy", "fix"} => fs = last.pre

\* a dry run of fix mode returned after reporting an item it would fix;
\* the file still holds the old string
C3_Witness ==
    /\ dry_run
    /\ pc = "done"
    /\ items_count > 0
    /\ fix_mode
    /\ \E p \in DOMAIN fs : IsFile(fs, p) /\ Contains(fs[p].content, replacements[1][1])

\* C4: dry-run count agreement in normal mode.  A dry run and the run
\* without --dry-run that follows it on the same tree return the same count.
C4_DryRunCountAgrees ==
    ( /\ ~fix_mode
      /\ Len(finished) >= 2
      /\ finished[1].dry
      /\ ~finished[2].dry
      /\ finished[2].start = finished[1].start )
    => finished[2].count = finished[1].count

\* the text file(1) would classify a content as, whatever the path
IsTextContent(content) == Contains(Lower(file_description(content)), Str_text)

\* C5: content/name substitution agreement.  After create_renamed_copy has
\* copied a directory, every text file of the copy holds the content of its
\* source with old replaced by new the way the name transform replaced it,
\* and every other file of the copy holds exactly the content of its source.
C5_CopyContentAgrees ==
    ( /\ last.op = "copy"
      /\ last.ret
      /\ ~dry_run
      /\ IsDir(last.pre, last.item) )
    => \A p \in DOMAIN last.pre :
           (Under(p, last.item) /\ IsFile(last.pre, p)) =>
               LET q == LastTarget \o Drop(p, Len(last.item))
                   source == last.pre[p].content
               IN  /\ q \in DOMAIN fs
                   /\ fs[q].content = IF IsTextContent(source)
                                      THEN transform_name(source, last.old, last.new).value
                                      ELSE source

\* old occurs in s under the active case rule
Occurs(s, old) == IF case_sensitive THEN Contains(s, old) ELSE SearchI(s, old)

\* the tree has the same paths and kinds as before
SameEntries(a, b) ==
    /\ DOMAIN a = DOMAIN b
    /\ \A p \in DOMAIN a : a[p].kind = b[p].kind

\* C6 as claimed: a pass of fix mode creates, deletes and renames nothing,
\* and a file whose content changes contained old before.
C6_FixModeScope ==
    fix_mode =>
        /\ SameEntries(start_fs, fs)
        /\ last.op = "fix" =>
               \A p \in DOMAIN fs :
                   fs[p] # last.pre[p] =>
                       IsFile(fs, p) /\ Occurs(last.pre[p].content, last.old)

\* C6 as amended: a pass of fix mode creates, deletes and renames nothing,
\* and a file whose content changes contained old before in its text as
\* read, that is decoded with the invalid bytes dropped; over a whole pass,
\* a file that differs from the start contained the old of some pair so.
C6_FixModeScopeDecoded ==
    fix_mode =>
        /\ SameEntries(start_fs, fs)
        /\ last.op = "fix" =>
               \A p \in DOMAIN fs :
                   fs[p] # last.pre[p] =>
                       IsFile(fs, p) /\ Occurs(read_text(last.pre[p].content), last.old)
        /\ \A p \in DOMAIN fs :
               fs[p] # start_fs[p] =>
                   \E i \in 1..Len(replacements) :
                       Occurs(read_text(start_fs[p].content), replacements[i][1])

\* fix mode rewrote a file in which old occurred only once the invalid byte
\* was dropped
C6_Witness ==
    /\ fix_mode
    /\ last.op = "fix"
    /\ \E p \in DOMAIN fs :
           /\ fs[p] # last.pre[p]
           /\ ~Occurs(last.pre[p].content, last.old)
           /\ Occurs(read_text(last.pre[p].content), last.old)

\* C7: no-op rename.  When the transformed name equals the name,
\* create_renamed_copy creates nothing and returns False, and the count is
\* not increased, with and without dry_run.
C7_NoOpRename ==
    ( /\ last.op = "copy"
      /\ ~LastRenamed.raised
      /\ LastRenamed.value = PathName(last.item) )
    => (~last.ret /\ fs = last.pre /\ items_count = last.count)

\* a matched item whose name the pair leaves as it is went through
\* create_renamed_copy
C7_Witness ==
    /\ last.op = "copy"
    /\ ~LastRenamed.raised
    /\ LastRenamed.value = PathName(last.item)
    /\ Occurs(PathName(last.item), last.old)

\* C8: case-insensitive verbatim replacement.  In case-insensitive mode the
\* name create_renamed_copy computes is the name with every occurrence of
\* old, whatever its case, replaced by exactly the characters of new, and so
\* is the content fix mode writes to a text file.
C8_VerbatimReplacement ==
    ~case_sensitive =>
        /\ last.op = "copy" =>
               /\ ~last.raised
               /\ LastRenamed.value = ScanReplaceI(PathName(last.item), last.old, last.new)
        /\ ( /\ last.op = "fix"
             /\ ~dry_run
             /\ IsFile(last.pre, last.item)
             /\ IsTextContent(last.pre[last.item].content) )
           => fs[last.item].content =
                  ScanReplaceI(read_text(last.pre[last.item].content), last.old, last.new)

\* p is the metadata directory .git or lies inside one
InGit(p) == \E k \in 1..Len(p) : PathName(SubSeq(p, 1, k)) = Str_git

\* the base name of p contains the pattern, under the active case rule
NameHas(p, pattern) ==
    IF case_sensitive THEN Contains(PathName(p), pattern)
    ELSE SearchI(PathName(p), pattern)

\* the set of the elements of a sequence
Range(seq) == {seq[i] : i \in 1..Len(seq)}

\* C9: pattern matcher exactness.  The list find_items_with_pattern returns
\* holds no entry twice, and holds exactly the files and directories whose
\* base name contains the pattern and that are not in .git.
C9_MatcherExact ==
    last.op = "find" =>
        /\ \A i, j \in 1..Len(matching_items) : matching_items[i] = matching_items[j] => i = j
        /\ Range(matching_items) =
               {p \in DOMAIN fs : ~InGit(p) /\ NameHas(p, last.pattern)}

\* a search returned matches while an entry inside .git carried the pattern
\* in its name too
C9_Witness ==
    /\ last.op = "find"
    /\ matching_items # <<>>
    /\ \E p \in DOMAIN fs : InGit(p) /\ NameHas(p, last.pattern)

\* C10: pair ordering.  The match set of a pair is computed only when every
\* item of the previous pair's list has been handled, and on the tree as it
\* then is, the entries the earlier pairs created included; the pairs are
\* searched for one by one in the order of the list.
C10_PairOrdering ==
    /\ \A i \in 1..Len(searched) : searched[i] = i
    /\ pc = "items" => Len(searched) = pair_idx
    /\ last.op = "find" =>
           /\ last.handled = last.listed
           /\ fs = last.pre
           /\ Range(matching_items) =
                  {p \in DOMAIN fs : ~InGit(p) /\ NameHas(p, last.pattern)}

\* the second pair matched an entry that the first pair created
C10_Witness ==
    /\ pc = "items"
    /\ pair_idx = 2
    /\ last.op = "find"
    /\ \E i \in 1..Len(matching_items) : matching_items[i] \notin DOMAIN start_fs

(***************************************************************************)
(* Properties of run (RunSpec)                                             *)
(***************************************************************************)
\* the lines of the log with the status given
Logged(status) == {i \in DOMAIN log_file : log_file[i].status = status}

\* C11: success tally and exit status.  When run has returned and the clone
\* of some listed repository failed on every attempt (FAILED is logged),
\* the repositories counted as successful leave out the failed ones and the
\* exit status is 1, not 0.
C11_CloneFailureExcluded ==
    (pc = "exit" /\ Logged("FAILED") # {})
        => /\ successful_repos + Cardinality(Logged("FAILED")) <= total_repos
           /\ exit_code = <<1>>

\* the last step was one turn of a retry loop, running cmd
IsAttempt(cmd) ==
    last.op = "git" /\ Len(last.calls) = 1 /\ last.calls[1].cmd = cmd

\* the status of the last line of the log
LastStatus == log_file[Len(log_file)].status

\* what holds after every turn of the retry loop of cmd, whose loop is at
\* pc = at and which logs done on success and failed on giving up
RetryTurn(cmd, at, done, failed) ==
    IsAttempt(cmd) =>
        /\ last.attempt <= max_retries
        /\ last.calls[1].ok => last.ret = <<TRUE>> /\ pc # at /\ LastStatus = done
        /\ ~last.calls[1].ok =>
              \/ last.ret = <<>> /\ pc = at /\ retry = last.attempt
                 /\ last.attempt < max_retries
              \/ last.ret = <<FALSE>> /\ pc # at /\ last.attempt = max_retries
                 /\ LastStatus = failed

C12_Attempts ==
    /\ pc \in {"clone", "push"} => retry < max_retries
    /\ RetryTurn("clone", "clone", "CLONED", "FAILED")
    /\ RetryTurn("push", "push", "PUSHED", "PUSH_FAILED")

\* C12: bounded retry.  The loops of clone_repository and of the push make
\* at most 3 attempts; a successful attempt ends the loop with True and
\* CLONED / PUSHED logged; False is returned, with FAILED / PUSH_FAILED
\* logged, only by the third attempt, the attempts before it having failed;
\* and a loop that is entered is left.
C12_BoundedRetry ==
    /\ []C12_Attempts
    /\ (pc = "clone") ~> (pc # "clone")
    /\ (pc = "push") ~> (pc # "push")

\* a push that succeeds at its third attempt, in a run in which a clone
\* was given up after its third
C12_Witness ==
    /\ IsAttempt("push")
    /\ last.calls[1].ok
    /\ last.attempt = max_retries
    /\ Logged("FAILED") # {}

\* C13: per-item failure isolation.  When the copy of a matched entry
\* raised, the entry is not counted and the loop over the matched entries
\* goes on with the next one: the run is not left.
C13_CopyFailureIsolated ==
    (last.op = "copy" /\ last.raised)
        => /\ pc = "items"
           /\ items_count = last.count

\* the commands of the working-branch setup and of the publishing
GitLevelWork == {"checkout", "checkout -b", "add", "commit", "push"}

\* C14: git state failure handling.  Once checkout_base_branch or
\* create_or_checkout_branch has failed for a repository (a checkout, fetch
\* or pull of it failed and it returned False), no checkout or creation of
\* the working branch, add, commit or push is run for that repository.
C14_SetupFailureStopsGitWork ==
    (/\ last.op = "git"
     /\ last.fn \in {"create_or_checkout_branch", "git_add_commit_push"}
     /\ \E i \in DOMAIN last.calls : last.calls[i].cmd \in GitLevelWork)
        => ~last.after_failure

\* C15: configuration failure is fatal and early.  When the repository list
\* is missing or no replacement pair is configured, run does nothing but
\* begin the log and return 1: the working directory is as the run found
\* it, no repository is taken from the list, cloned or scanned, and no
\* version-control command is run.
C15_ConfigFailureEarly ==
    (~repo_list_file.exists \/ replacements = <<>>)
        => /\ pc \in {"run", "exit"}
           /\ pc = "exit" => exit_code = <<1>>
           /\ work_dir \in StartWorkDirs
           /\ fs = TreeOf({})
           /\ processed = <<>> /\ total_repos = 0
           /\ last.op \in {"none", "run"}
           /\ \A i \in DOMAIN log_file : log_file[i].status = "STARTED"

\* run has returned 1 for an empty list of pairs, the repository list
\* naming repositories and the working directory absent
C15_Witness ==
    /\ pc = "exit"
    /\ exit_code = <<1>>
    /\ replacements = <<>>
    /\ repo_list_file.exists
    /\ \E i \in DOMAIN repo_list_file.lines : ~is_skipped(strip(repo_list_file.lines[i]))
    /\ work_dir = NoDir

\* C16: fix-mode dry-run agreement.  A dry-run fix step counts the matched
\* entry as fixed exactly when the step without dry_run, on the same tree
\* with the same pair, would change the tree.
C16_FixDryRunAgrees ==
    (last.op = "fix" /\ dry_run)
        => (last.fixed <=>
               \E r \in fix_item(last.pre, last.item, last.old, last.new, FALSE) :
                   r.tree # last.pre)

\* the version-control commands that change the clone or the remote
StateChanging ==
    {"clone", "checkout", "checkout -b", "fetch", "pull", "add", "commit", "push"}

\* C17: dry run performs no git operations.  With dry_run set, no run of
\* clone, checkout, branch creation, fetch, pull, add, commit or push is
\* made, and the working directory stays as the run found it.
C17_DryRunNoGit ==
    dry_run
        => /\ last.op = "git"
                 => \A i \in DOMAIN last.calls : last.calls[i].cmd \notin StateChanging
           /\ work_dir \in StartWorkDirs
           /\ Logged("CLONED") = {}

\* lines 419-428 in one piece: the outcomes of the loop over the list items
\* on the tree, [raised |-> an exception left the loop, count |-> the
\* copies counted, tree |-> the tree afterwards]
RECURSIVE copy_items(_, _, _, _)
copy_items(tree, items, old, new) ==
    IF items = <<>>
    THEN {[raised |-> FALSE, count |-> 0, tree |-> tree]}
    ELSE UNION {
           IF o.raised
           THEN {[raised |-> TRUE, count |-> 0, tree |-> o.tree]}
           ELSE {[raised |-> r.raised,
                  count  |-> r.count + (IF o.ret THEN 1 ELSE 0),
                  tree   |-> r.tree] : r \in copy_items(o.tree, Tail(items), old, new)} :
           o \in create_renamed_copy(tree, Head(items), old, new, FALSE)}

\* C18: match order is not significant.  When the match set of a pair has
\* been computed (normal mode, no dry run), processing it in any of the
\* orders the walk can list it in gives the same tree and the same count.
C18_OrderInsignificant ==
    (pc = "items" /\ item_idx = 1 /\ ~fix_mode /\ ~dry_run)
        => \A a, b \in find_items_with_pattern(fs, old_str) :
               copy_items(fs, a, old_str, new_str) = copy_items(fs, b, old_str, new_str)

(***************************************************************************)
(* replace_content_in_file on its own, the write allowed to fail           *)
(***************************************************************************)
\* the outcomes of replace_content_in_file when the write of lines 320-321
\* can fail (no space left, file size limit): open(..., 'w') has emptied
\* the file, as much of the new text as was written stays, the error is
\* caught at line 327 and False is returned
replace_content_in_file_io(tree, p, old, new) ==
    LET r == replace_content_in_file(tree, p, old, new)
        new_content == r.tree[p].content
    IN  {r} \cup
        (IF r.ret
         THEN {[ret |-> FALSE,
                tree |-> [tree EXCEPT ![p].content = SubSeq(new_content, 1, k)]] :
                  k \in 0..(Len(new_content) - 1)}
         ELSE {})

\* a tree, the settings, and no call made yet
SubstInit ==
    /\ fs \in InitialTrees
    /\ case_sensitive \in BOOLEAN
    /\ fix_mode = FALSE
    /\ replacements \in PairLists
    /\ dry_run = FALSE
    /\ pc = "substitute"
    /\ pair_idx = 1
    /\ matching_items = <<>>
    /\ item_idx = 1
    /\ items_count = 0
    /\ run_no = 1
    /\ start_fs = fs
    /\ finished = <<>>
    /\ searched = <<>>
    /\ last = [op |-> "none"]
    /\ InRepository

\* one call replace_content_in_file(file_path, old_str, new_str) on a file
\* of the tree (lines 380, 335, 507)
ReplaceContent ==
    /\ pc = "substitute"
    /\ \E p \in {q \in DOMAIN fs : IsFile(fs, q)} :
           \E out \in replace_content_in_file_io(fs, p, old_str, new_str) :
               /\ fs' = out.tree
               /\ last' = [op |-> "replace", path |-> p, old |-> old_str, new |-> new_str,
                           ret |-> out.ret, pre |-> fs]
    /\ pc' = "substituted"
    /\ UNCHANGED <<config, orchestration, dry_run, pair_idx, matching_items, item_idx,
                   items_count, run_no, start_fs, finished, searched>>

SubstSpec == SubstInit /\ [][ReplaceContent]_vars

\* C19: Content Substitutor change report.  After a call of
\* replace_content_in_file that returned False the tree, the file's content
\* included, is exactly as before the call; after a call that returned True
\* nothing but the content of that file differs.
C19_ChangeReport ==
    last.op = "replace"
        => /\ ~last.ret => fs = last.pre
           /\ last.ret => \A q \in DOMAIN last.pre :
                              q # last.path => (q \in DOMAIN fs /\ fs[q] = last.pre[q])
           /\ DOMAIN fs = DOMAIN last.pre

\* the lines of the list before line k that name a repository, stripped,
\* in the order of the file
ListedBefore(k) ==
    LET lines == repo_list_file.lines
        stripped == [i \in 1..(k - 1) |-> strip(lines[i])]
    IN  SelectSeq(stripped, LAMBDA l : ~is_skipped(l))

\* process_repository has been called with exactly the repository lines
\* read so far, once each and in the order of the file, the last of them
\* being the one in process; a clone or a push given up returns to run
C20_InFileOrder ==
    /\ pc = "run" => processed = <<>>
    /\ pc \in {"line", "exit"} => processed = ListedBefore(line_idx)
    /\ pc \notin {"run", "line", "exit"} => processed = ListedBefore(line_idx + 1)
    /\ ((IsAttempt("clone") \/ IsAttempt("push")) /\ last.ret = <<FALSE>>)
           => pc = "returned"

Ran(cmd, ok) ==
    /\ last.op = "git"
    /\ last.fn = "git_add_commit_push"
    /\ \E i \in DOMAIN last.calls : last.calls[i] = Call(cmd, ok)

\* git_add_commit_push has just run cmd, whatever the outcome
Invoked(cmd) == Ran(cmd, TRUE) \/ Ran(cmd, FALSE)

\* git_add_commit_push has just returned the value v
Returned(v) ==
    /\ last.op = "git"
    /\ last.fn = "git_add_commit_push"
    /\ last.ret = <<v>>

\* the function goes on after its last step
GoesOn == last.op = "git" /\ last.fn = "git_add_commit_push" /\ last.ret = <<>>

\* one step of the program, seen as a step of the publishing
PublishStepInOrder ==
    \* the function is entered, with git status, only when asked to push,
    \* outside a dry run, with at least one item counted
    /\ Invoked("status")' => push /\ ~dry_run /\ items_count > 0
    \* add follows a status that reported changes
    /\ Invoked("add")' => Ran("status", TRUE) /\ GoesOn
    \* commit follows a successful add
    /\ Invoked("commit")' => Ran("add", TRUE) /\ GoesOn
    \* the first push follows a successful commit, a later one a failed push
    /\ Invoked("push")' =>
          /\ GoesOn
          /\ IF last'.attempt = 1 THEN Ran("commit", TRUE) ELSE Ran("push", FALSE)
    \* status without changes: the function returns True at once
    /\ (Ran("status", TRUE)' /\ ~GoesOn') => Returned(TRUE)' /\ pc' = "returned"
    \* a failed add or commit: the function returns False at once
    /\ (Ran("add", FALSE)' \/ Ran("commit", FALSE)') => Returned(FALSE)' /\ pc' = "returned"
    \* PUSHED is logged by a push attempt that succeeded, and by nothing else
    /\ (Logged("PUSHED")' # Logged("PUSHED")) => Ran("push", TRUE)' /\ Returned(TRUE)'

\* C21: in git_add_commit_push add comes before commit and commit before
\* the first push attempt; when status reports no changes none of add,
\* commit and push is run and the result is success; when add or commit
\* fails push is not attempted and the result is failure; PUSHED is logged
\* only by a push attempt that succeeded; and the function is entered only
\* when push is requested, dry-run is off and the item count is above zero
C21_PublishOrder == [][PublishStepInOrder]_vars

\* changes were added, committed and pushed at the first attempt, and
\* PUSHED was logged
C21_Witness ==
    /\ pc = "returned"
    /\ Ran("push", TRUE)
    /\ last.attempt = 1
    /\ push /\ ~dry_run /\ items_count > 0
    /\ LastStatus = "PUSHED"

(***************************************************************************)
(* C22: the branch the changes are committed and pushed on                 *)
(***************************************************************************)

\* C22: working-branch safety.  When a working branch is configured, git
\* commit and git push are run only while that branch is the one checked
\* out; when it could not be checked out or created nothing is committed
\* or pushed on another branch.
C22_WorkingBranchOnly ==
    (branch_name # "" /\ (Invoked("commit") \/ Invoked("push")))
        => last.on = branch_name

(***************************************************************************)
(* C23: the match set of a pair and the end of process_repository          *)
(***************************************************************************)

\* lists of pairs whose first has a new string that contains the old one:
\* as it is written when CASE_SENSITIVE is true, and without regard to
\* case when it is false
GrowingPairLists(sensitive) ==
    IF sensitive
    THEN { << <<Str_dev, Str_Devdev>> >>,
           << <<Str_dev, Str_Devdev>>, <<Str_dev, Str_prod>> >> }
    ELSE { << <<Str_Dev, Str_dev>> >>,
           << <<Str_Dev, Str_dev>>, <<Str_dev, Str_prod>> >> }

\* the entries of the trees process_repository is followed to its end on:
\* directories, one within another, and a file no pair matches
DirectoryPool ==
    { [path |-> <<Str_dev>>,          node |-> DirNode],
      [path |-> <<Str_Dev>>,          node |-> DirNode],
      [path |-> <<Str_dev, Str_dev>>, node |-> DirNode],
      [path |-> <<Str_prod>>,         node |-> FileNode(Str_latin)],
      [path |-> <<Str_git>>,          node |-> DirNode],
      [path |-> <<Str_git, Str_dev>>, node |-> DirNode] }

DirectoryTrees ==
    {TreeOf(S) : S \in {T \in SUBSET DirectoryPool : Cardinality(T) <= MaxEntries /\ IsTree(T)}}

\* process_repository called on a clone, with such a list
CopyInit ==
    /\ fs \in DirectoryTrees
    /\ case_sensitive \in BOOLEAN
    /\ fix_mode = FALSE
    /\ replacements \in GrowingPairLists(case_sensitive)
    /\ dry_run \in BOOLEAN
    /\ pc = "pair"
    /\ pair_idx = 1
    /\ matching_items = <<>>
    /\ item_idx = 1
    /\ items_count = 0
    /\ run_no = 1
    /\ start_fs = fs
    /\ finished = <<>>
    /\ searched = <<>>
    /\ last = [op |-> "none"]
    /\ InRepository

\* the steps of process_repository from the loop over the pairs on
CopyNext == FindItems \/ CopyItem \/ EndPair \/ Return

\* process_repository alone, never stopping between two of its steps
CopySpec == CopyInit /\ [][CopyNext]_vars /\ WF_vars(CopyNext)

\* the entries a step has created
Created == DOMAIN fs' \ DOMAIN fs

\* one step of process_repository, seen from the match set
SnapshotStep ==
    \* the search lists entries of the tree, each once, and copies nothing
    /\ last'.op = "find" =>
          /\ fs' = fs
          /\ Range(matching_items') \subseteq DOMAIN fs
          /\ \A i, j \in DOMAIN matching_items' :
                 matching_items'[i] = matching_items'[j] => i = j
    \* a copy is that of the next entry of the list, which stays as the
    \* search returned it: what the copy creates is not in it
    /\ last'.op = "copy" =>
          /\ matching_items' = matching_items
          /\ last'.item = matching_items[item_idx]
          /\ ~last'.raised => item_idx' = item_idx + 1
          /\ items_count' \in {items_count, items_count + 1}
          /\ Created \cap Range(matching_items') = {}
    \* the list is left only when all of it has been gone through
    /\ last'.op = "next" => item_idx = Len(matching_items) + 1 /\ fs' = fs

\* C23: the match set of a pair is computed before any copy for the pair
\* is made and is not changed by the copies, so an entry created under a
\* pair is not processed under that pair in the same pass and a pair makes
\* at most one copy for each entry found; process_repository comes to its
\* end although the new string contains the old one.
C23_SnapshotTerminates ==
    /\ [][SnapshotStep]_vars
    /\ <>(pc \in {"done", "crashed"})

\* process_repository has returned having created, under the pair whose
\* new string contains the old one, an entry that the pair's pattern matches
C23_Witness ==
    /\ pc = "done"
    /\ ~dry_run
    /\ Occurs(replacements[1][2], replacements[1][1])
    /\ \E p \in DOMAIN fs \ DOMAIN start_fs : matches(p, replacements[1][1])

(***************************************************************************)
(* C24: a second pass of fix mode                                          *)
(***************************************************************************)
Str_devev == <<"d","e","v","e","v">>

\* the entries of the trees fix mode is run twice on: files whose names
\* hold a new string, with old strings in their contents
FixPool ==
    { [path |-> <<Str_prod>>,          node |-> FileNode(Str_devev)],
      [path |-> <<Str_dev>>,           node |-> DirNode],
      [path |-> <<Str_dev, Str_prod>>, node |-> FileNode(Str_Devdev)],
      [path |-> <<Str_dev, Str_dev>>,  node |-> FileNode(Str_Devdev)],
      [path |-> <<Str_Dev>>,           node |-> FileNode(Str_dev)] }

FixTrees ==
    {TreeOf(S) : S \in {T \in SUBSET FixPool : Cardinality(T) <= MaxEntries /\ IsTree(T)}}

\* process_repository_fix_mode called on a clone
FixInit ==
    /\ fs \in FixTrees
    /\ case_sensitive \in BOOLEAN
    /\ fix_mode = TRUE
    /\ replacements \in PairLists
    /\ dry_run \in BOOLEAN
    /\ pc = "pair"
    /\ pair_idx = 1
    /\ matching_items = <<>>
    /\ item_idx = 1
    /\ items_count = 0
    /\ run_no = 1
    /\ start_fs = fs
    /\ finished = <<>>
    /\ searched = <<>>
    /\ last = [op |-> "none"]
    /\ InRepository

\* the steps of process_repository_fix_mode, and the tool run again
FixNext == FindItems \/ FixItem \/ EndPair \/ Return \/ Rerun

FixSpec == FixInit /\ [][FixNext]_vars

\* the pairs all keep the rule: the new string does not contain the old one
NoPairGrows ==
    \A i \in DOMAIN replacements : ~Occurs(replacements[i][2], replacements[i][1])

\* C24: fix-mode idempotence.  When the new string of the pair does not
\* contain the old one under the case rule in force, a second pass of fix
\* mode with the same pair, after a first one that was no dry run, changes
\* no file and counts no item.
C24_FixIdempotent ==
    (fix_mode /\ Len(replacements) = 1 /\ NoPairGrows
       /\ Len(finished) >= 2 /\ ~finished[1].dry)
        => /\ finished[2].final = finished[2].start
           /\ finished[2].count = 0

(***************************************************************************)
(* C25: a second pass of the normal mode                                   *)
(***************************************************************************)

\* C25: normal-mode re-run idempotence.  When the new string of the pair
\* does not contain the old one under the case rule in force, a second
\* pass of the normal mode with the same pair, over the tree a first pass
\* that was no dry run has left, creates no entry and counts no item.
C25_CopyIdempotent ==
    (~fix_mode /\ Len(replacements) = 1 /\ NoPairGrows
       /\ Len(finished) >= 2 /\ ~finished[1].dry)
        => /\ DOMAIN finished[2].final = DOMAIN finished[2].start
           /\ finished[2].count = 0

====
